---------------------------- MODULE Spec2Model ----------------------------
(***************************************************************************)
(* Model of the indexed large-file editing engine of Peek                  *)
(* (src/src-tauri/src/lib.rs): the line-offset indexer index_file, the     *)
(* range reader read_lines, the range patcher patch_file_lines, the        *)
(* whole-file save safe_save_file, and the process-wide LineIndexCache.    *)
(*                                                                         *)
(* Files are byte sequences held in inodes; the directory maps a path to   *)
(* an inode, and an open file handle names an inode, so a handle opened    *)
(* before a rename keeps reading the file it opened.  Every command runs   *)
(* on a worker thread and is split at its system calls.                    *)
(***************************************************************************)
EXTENDS Integers, Sequences, FiniteSets, TLC

\* ------------------------------------------------------------------ bounds

\* Every byte sequence up to this length is a file the program may start with.
MaxLen == 1

\* ------------------------------------------------------------- byte values

\* b'\n', the line terminator the scans split on.
LF == 10

\* "a\nbb\nccc\n", the 9-byte file of the example scenario.
ExampleFile == <<97, 10, 98, 98, 10, 99, 99, 99, 10>>

\* 0xC3 0xA9, the UTF-8 encoding of U+00E9; either byte alone is invalid.
EAcute == <<195, 169>>

ByteA == ExampleFile[1]
ByteLead == EAcute[1]
ByteCont == EAcute[2]
\* The bytes the initial files are drawn from.
Bytes == {LF, ByteA, ByteLead}

\* U+FFFD REPLACEMENT CHARACTER in UTF-8.
Replacement == <<239, 191, 189>>

RECURSIVE SeqsUpTo(_, _)
SeqsUpTo(S, n) ==
    IF n = 0 THEN {<<>>}
    ELSE LET shorter == SeqsUpTo(S, n - 1)
         IN shorter \cup {Append(s, b) : s \in {t \in shorter : Len(t) = n - 1}, b \in S}

Min(a, b) == IF a <= b THEN a ELSE b
Max(a, b) == IF a >= b THEN a ELSE b

\* The bytes [from, to) of a file, 0-based offsets as in the code.
Slice(bytes, from, to) == SubSeq(bytes, from + 1, Min(to, Len(bytes)))

\* --------------------------------------------------------------- the paths

\* A path is <<stem, extension>>.
WithExtension(p, ext) == <<p[1], ext>>
TempPath(p) == WithExtension(p, "tmp")

\* The paths the callers can name: two of them differ only in extension from
\* a third, and one has the extension tmp.
Paths == {<<"a", "txt">>, <<"a", "tmp">>, <<"a", "log">>}
\* The paths the file system can hold.
FsPaths == Paths \cup {TempPath(p) : p \in Paths}

\* ------------------------------------------------- the indexer's line scan

\* BufRead::split(b'\n'): the segments between delimiters, delimiter
\* excluded; no segment is produced once the input is exhausted.
RECURSIVE SplitLF(_)
SplitLF(bytes) ==
    IF bytes = <<>> THEN <<>>
    ELSE LET hits == {k \in 1..Len(bytes) : bytes[k] = LF}
         IN IF hits = {} THEN <<bytes>>
            ELSE LET k == CHOOSE h \in hits : \A g \in hits : h <= g
                 IN <<SubSeq(bytes, 1, k - 1)>> \o SplitLF(SubSeq(bytes, k + 1, Len(bytes)))

\* Mutant of PushOffset: the offset is pushed without the size test.
PushOffsetAlways(offsets, byte_pos, file_size) == Append(offsets, byte_pos)

\* if byte_pos <= file_size { offsets.push(byte_pos); }
PushOffset(offsets, byte_pos, file_size) ==
    IF byte_pos <= file_size THEN Append(offsets, byte_pos) ELSE offsets

RECURSIVE ScanLoop(_, _, _, _)
ScanLoop(segs, byte_pos, offsets, file_size) ==
    IF segs = <<>> THEN offsets
    ELSE LET next_pos == byte_pos + Len(Head(segs)) + 1
         IN ScanLoop(Tail(segs), next_pos, PushOffset(offsets, next_pos, file_size), file_size)

\* The offsets vector built from the scanned bytes and the stat'ed size.
BuildOffsets(bytes, file_size) == ScanLoop(SplitLF(bytes), 0, <<0>>, file_size)

\* ------------------------------------------------------ from_utf8_lossy

IsCont(b) == b >= 128 /\ b <= 191

\* Length of the valid UTF-8 sequence at the head of bytes, or 0.
Utf8Width(bytes) ==
    LET b0 == bytes[1]
        n  == Len(bytes)
        lo2 == IF b0 = 224 THEN 160 ELSE IF b0 = 240 THEN 144 ELSE 128
        hi2 == IF b0 = 237 THEN 159 ELSE IF b0 = 244 THEN 143 ELSE 191
        second == n >= 2 /\ bytes[2] >= lo2 /\ bytes[2] <= hi2
    IN IF b0 < 128 THEN 1
       ELSE IF b0 >= 194 /\ b0 <= 223 THEN (IF n >= 2 /\ IsCont(bytes[2]) THEN 2 ELSE 0)
       ELSE IF b0 >= 224 /\ b0 <= 239
            THEN (IF second /\ n >= 3 /\ IsCont(bytes[3]) THEN 3 ELSE 0)
       ELSE IF b0 >= 240 /\ b0 <= 244
            THEN (IF second /\ n >= 4 /\ IsCont(bytes[3]) /\ IsCont(bytes[4]) THEN 4 ELSE 0)
       ELSE 0

\* Length of the maximal invalid prefix replaced by one U+FFFD.
InvalidLen(bytes) ==
    LET b0 == bytes[1]
        n  == Len(bytes)
        lo2 == IF b0 = 224 THEN 160 ELSE IF b0 = 240 THEN 144 ELSE 128
        hi2 == IF b0 = 237 THEN 159 ELSE IF b0 = 244 THEN 143 ELSE 191
        second == n >= 2 /\ bytes[2] >= lo2 /\ bytes[2] <= hi2
    IN IF b0 >= 224 /\ b0 <= 244 /\ second
       THEN (IF n >= 3 /\ IsCont(bytes[3]) THEN (IF b0 >= 240 THEN 3 ELSE 1) ELSE 2)
       ELSE 1

RECURSIVE IsValidUtf8(_)
IsValidUtf8(bytes) ==
    IF bytes = <<>> THEN TRUE
    ELSE LET w == Utf8Width(bytes)
         IN w > 0 /\ IsValidUtf8(SubSeq(bytes, w + 1, Len(bytes)))

\* Mutant of FromUtf8Lossy: invalid bytes are dropped instead of replaced.
RECURSIVE FromUtf8Dropping(_)
FromUtf8Dropping(bytes) ==
    IF bytes = <<>> THEN <<>>
    ELSE LET w == Utf8Width(bytes)
         IN IF w > 0
            THEN SubSeq(bytes, 1, w) \o FromUtf8Dropping(SubSeq(bytes, w + 1, Len(bytes)))
            ELSE FromUtf8Dropping(SubSeq(bytes, InvalidLen(bytes) + 1, Len(bytes)))

\* String::from_utf8_lossy(&buffer).to_string(), as the bytes of the String.
RECURSIVE FromUtf8Lossy(_)
FromUtf8Lossy(bytes) ==
    IF bytes = <<>> THEN <<>>
    ELSE LET w == Utf8Width(bytes)
         IN IF w > 0
            THEN SubSeq(bytes, 1, w) \o FromUtf8Lossy(SubSeq(bytes, w + 1, Len(bytes)))
            ELSE Replacement \o FromUtf8Lossy(SubSeq(bytes, InvalidLen(bytes) + 1, Len(bytes)))

\* ------------------------------------------------------------ more bounds

\* Largest start_line and line_count a caller passes.
MaxLine == 2
\* Bytes moved by one read/write round of a copy loop (8192 in the code).
ChunkSize == 2
\* Commands issued in one run.
MaxCalls == 2
\* Largest terminal id the callers pass.
MaxId == 2

\* Capacity of the disk for one file: a write that would grow a file past it
\* fails (disk full).
DiskLimit == Len(ExampleFile) + 2

\* The replacement texts and saved texts callers pass.
Texts == {<<>>, <<ByteA, LF>>, <<ByteLead>>, <<ByteLead, ByteCont>>}

\* ------------------------------------------------------------ the state

Workers == {1, 2}
NumInodes == Cardinality(FsPaths) + 2 * Cardinality(Workers)
Inodes == 1..NumInodes

\* Content of a path that does not exist.
Absent == <<-1>>
NoPath == <<"", "">>
\* HashMap::get returning None.
NoIndex == <<-1>>

VARIABLES
    dir,       \* directory: path -> inode, 0 when the path does not exist
    data,      \* inode -> bytes
    cache,     \* LineIndexCache: path -> offsets vector, NoIndex when absent
    lock,      \* the worker holding the cache Mutex, 0 when free
    poisoned,  \* the Mutex was poisoned by a panic of its holder
    th,        \* per serving worker thread: its command, its locals, its result
    active,    \* the worker threads that serve commands
    env,       \* the callers and the environment of this run, fixed at the start
    budget,    \* commands the callers may still issue
    sessions,  \* PtyState.sessions: terminal id -> session
    next_id,   \* PtyState.next_id
    tt,        \* per serving worker thread: its terminal command and its result
    returned,  \* history: the ids spawn_terminal has returned, in order
    killed     \* history: the ids whose session kill_terminal has removed

\* The state of the terminal session manager and of its calls.
pty == <<sessions, next_id, tt, returned, killed>>

vars == <<dir, data, cache, lock, poisoned, th, active, env, pty, budget>>

\* The paths the callers name in this run.
named == env.named
\* Whether the environment makes file operations fail.
faulty == env.faulty
\* The start lines and line counts the callers pass.
LineArgs == env.lines
\* The replacement texts and saved texts the callers pass.
NewContents == env.texts

NoRet == [status |-> "none", at |-> "none", content |-> <<>>, start_line |-> 0,
          lines_read |-> 0, total_lines |-> 0, file_size |-> 0]

IdleThread ==
    [pc |-> "idle", op |-> "none", path |-> NoPath, start_line |-> 0, line_count |-> 0,
     new_content |-> <<>>, start_byte |-> 0, end_byte |-> 0, src |-> 0, src_pos |-> 0,
     dest |-> 0, dest_pos |-> 0, remaining |-> 0, offsets |-> <<>>, file_size |-> 0,
     safe_start |-> 0, actual_count |-> 0, pre |-> Absent, index0 |-> NoIndex,
     ret |-> NoRet]

\* Content found at a path, Absent when the path does not exist.
ContentIn(d, dt, p) == IF d[p] = 0 THEN Absent ELSE dt[d[p]]
Content(p) == ContentIn(dir, data, p)

\* ------------------------------------------- inode numbering and reclaim

RECURSIVE SetToSeq(_)
SetToSeq(S) ==
    IF S = {} THEN <<>>
    ELSE LET x == CHOOSE y \in S : TRUE IN <<x>> \o SetToSeq(S \ {x})

PathOrder == SetToSeq(FsPaths)
WorkerOrder == SetToSeq(Workers)
NumRefs == Len(PathOrder) + 2 * Len(WorkerOrder)

\* Every reference to an inode, in a fixed order: directory entries, then
\* the open handles of each worker.
Refs(d, t) ==
    [k \in 1..NumRefs |->
       IF k <= Len(PathOrder) THEN d[PathOrder[k]]
       ELSE LET j == k - Len(PathOrder)
                w == WorkerOrder[(j + 1) \div 2]
            IN IF w \notin DOMAIN t THEN 0
               ELSE IF j % 2 = 1 THEN t[w].src ELSE t[w].dest]

\* The inodes referred to, in order of first reference.
RECURSIVE FirstSeen(_, _)
FirstSeen(refs, seen) ==
    IF refs = <<>> THEN seen
    ELSE LET i == Head(refs)
         IN FirstSeen(Tail(refs),
                      IF i = 0 \/ \E k \in 1..Len(seen) : seen[k] = i
                      THEN seen ELSE Append(seen, i))

\* An inode with no directory entry and no open handle is reclaimed; the
\* live inodes are numbered in order of first reference.
Renumber(d, dt, t) ==
    LET order == FirstSeen(Refs(d, t), <<>>)
        New(i) == IF i = 0 THEN 0 ELSE CHOOSE k \in 1..Len(order) : order[k] = i
    IN [d  |-> [p \in FsPaths |-> New(d[p])],
        dt |-> [n \in Inodes |-> IF n <= Len(order) THEN dt[order[n]] ELSE <<>>],
        t  |-> [w \in DOMAIN t |-> [t[w] EXCEPT !.src = New(@), !.dest = New(@)]]]

\* The step of worker w ends with thread record tw, directory d, inodes dt;
\* it opened or closed a handle or changed the directory.
Commit(w, tw, d, dt) ==
    LET r == Renumber(d, dt, [th EXCEPT ![w] = tw])
    IN dir' = r.d /\ data' = r.dt /\ th' = r.t

\* The step of worker w ends with thread record tw and inodes dt; handles
\* and directory are as before.
Keep(w, tw, dt) == dir' = dir /\ data' = dt /\ th' = [th EXCEPT ![w] = tw]

\* An inode no directory entry and no handle refers to.
FreeInode(d, t) ==
    LET refs == Refs(d, t)
    IN CHOOSE i \in Inodes : \A k \in 1..Len(refs) : refs[k] # i

\* ------------------------------------------------------- file operations

\* File::create: truncate the file at p, or make an empty one.
CreateDir(d, t, p) == IF d[p] # 0 THEN d ELSE [d EXCEPT ![p] = FreeInode(d, t)]
CreateData(d, dt, t, p) == [dt EXCEPT ![CreateDir(d, t, p)[p]] = <<>>]

\* Bytes of a file after writing buf at offset pos (holes read as zero).
WriteAt(bytes, pos, buf) ==
    LET n == Max(Len(bytes), pos + Len(buf))
    IN [k \in 1..n |->
          IF k > pos /\ k <= pos + Len(buf) THEN buf[k - pos]
          ELSE IF k <= Len(bytes) THEN bytes[k] ELSE 0]

\* Bytes a read of at most want bytes at offset pos returns.
ReadAt(bytes, pos, want) == Slice(bytes, pos, pos + want)

\* Mutant of RenameDir: the rename leaves the target entry as it was.
RenameDirKeepsTarget(d, from, to) == [d EXCEPT ![from] = 0]

\* fs::rename(from, to) on the directory; renaming a path to itself does nothing.
RenameDir(d, from, to) ==
    IF from = to THEN d ELSE [d EXCEPT ![to] = d[from], ![from] = 0]

\* --------------------------------------------------- entering and leaving

\* A command is entered.  pre and index0 record, for the properties, the
\* content and the cache entry the path had when the command was issued.
Begin(w, op, p, s, n, text) ==
    [IdleThread EXCEPT !.op = op, !.path = p, !.start_line = s, !.line_count = n,
                       !.new_content = text, !.pre = Content(p), !.index0 = cache[p]]

\* The command returns: its handles are closed, its result is kept until
\* the response is delivered.
Return(t, ret) ==
    [t EXCEPT !.pc = "done", !.src = 0, !.src_pos = 0, !.dest = 0, !.dest_pos = 0,
              !.remaining = 0, !.offsets = <<>>, !.file_size = 0, !.safe_start = 0,
              !.actual_count = 0, !.ret = ret]

\* The command returns an error from the step it is at; of the call only
\* the command, the path and what the path had are remembered.
Failure(t, status) ==
    Return([IdleThread EXCEPT !.op = t.op, !.path = t.path, !.pre = t.pre,
                              !.index0 = t.index0],
           [NoRet EXCEPT !.status = status, !.at = t.pc])

\* The outcomes of a file operation the environment may choose: in a faulty
\* environment any of them may fail.
Faults == IF faulty THEN BOOLEAN ELSE {FALSE}

Idle(w) == w \in active /\ th[w].pc = "idle" /\ budget > 0
At(w, op, pc) == w \in active /\ th[w].op = op /\ th[w].pc = pc

\* ---------------------------------------------------------- index_file

\* lib.rs 145: File::open(&path)
IndexOpen(w) ==
    /\ Idle(w)
    /\ \E p \in named, fault \in Faults :
         LET t == [Begin(w, "index_file", p, 0, 0, <<>>) EXCEPT !.pc = "open"]
         IN IF fault \/ dir[p] = 0
            THEN Commit(w, Failure(t, "IoError"), dir, data)
            ELSE Commit(w, [t EXCEPT !.pc = "stat", !.src = dir[p]], dir, data)
    /\ budget' = budget - 1
    /\ UNCHANGED <<cache, lock, poisoned, active, env, pty>>

\* lib.rs 146-147: fs::metadata(&path), metadata.len()
IndexStat(w) ==
    /\ At(w, "index_file", "stat")
    /\ \E fault \in Faults :
         LET t == th[w]
         IN IF fault \/ dir[t.path] = 0
            THEN Commit(w, Failure(t, "IoError"), dir, data)
            ELSE Keep(w, [t EXCEPT !.pc = "scan", !.file_size = Len(Content(t.path))], data)
    /\ UNCHANGED <<cache, lock, poisoned, active, env, pty, budget>>

\* Mutant of IndexScan: the cache is locked before the scan and stays locked.
IndexScanLocked(w) ==
    /\ At(w, "index_file", "scan")
    /\ lock = 0
    /\ Keep(w, [th[w] EXCEPT !.pc = "insert",
                             !.offsets = BuildOffsets(data[th[w].src], th[w].file_size)],
            data)
    /\ lock' = w
    /\ UNCHANGED <<cache, poisoned, active, env, pty, budget>>

\* lib.rs 151-163: the scan of the opened file
IndexScan(w) ==
    /\ At(w, "index_file", "scan")
    /\ \E fault \in Faults :
         LET t == th[w]
         IN IF fault
            THEN Commit(w, Failure(t, "IoError"), dir, data)
            ELSE Keep(w, [t EXCEPT !.pc = "insert",
                                   !.offsets = BuildOffsets(data[t.src], t.file_size)],
                      data)
    /\ UNCHANGED <<cache, lock, poisoned, active, env, pty, budget>>

\* lib.rs 166-173: lock, cache.insert(path, offsets), return
\* Mutant of IndexInsert: an entry already in the cache is kept.
IndexInsertIfAbsent(w) ==
    /\ At(w, "index_file", "insert")
    /\ lock = 0
    /\ LET t == th[w]
       IN IF poisoned
          THEN /\ Commit(w, Failure(t, "LockError"), dir, data)
               /\ UNCHANGED cache
          ELSE /\ cache' = IF cache[t.path] = NoIndex
                           THEN [cache EXCEPT ![t.path] = t.offsets]
                           ELSE cache
               /\ Commit(w, Return(t, [NoRet EXCEPT !.status = "Ok", !.at = "insert",
                                                    !.total_lines = Len(t.offsets),
                                                    !.file_size = t.file_size]),
                         dir, data)
    /\ UNCHANGED <<lock, poisoned, active, env, pty, budget>>

IndexInsert(w) ==
    /\ At(w, "index_file", "insert")
    /\ lock = 0
    /\ LET t == th[w]
       IN IF poisoned
          THEN /\ Commit(w, Failure(t, "LockError"), dir, data)
               /\ UNCHANGED cache
          ELSE /\ cache' = [cache EXCEPT ![t.path] = t.offsets]
               /\ Commit(w, Return(t, [NoRet EXCEPT !.status = "Ok", !.at = "insert",
                                                    !.total_lines = Len(t.offsets),
                                                    !.file_size = t.file_size]),
                         dir, data)
    /\ UNCHANGED <<lock, poisoned, active, env, pty, budget>>

\* ----------------------------------------------------------- read_lines

\* Mutant of CacheGet: a path without an entry is taken to have the index
\* of an empty file.
CacheGetOrEmpty(c, p) == IF c[p] = NoIndex THEN <<0>> ELSE c[p]

\* lib.rs 185, 240: cache.get(&path), NoIndex standing for None
CacheGet(c, p) == c[p]

SaturatingSub(a, b) == IF a >= b THEN a - b ELSE 0

\* Mutant of SafeStart: the start is clamped to the line count.
SafeStartToTotal(start_line, total_lines) == Min(start_line, total_lines)

\* lib.rs 188: start_line.min(total_lines.saturating_sub(1))
SafeStart(start_line, total_lines) == Min(start_line, SaturatingSub(total_lines, 1))

\* Mutant of SafeEnd: the last line is not counted.
SafeEndBeforeLast(safe_start, line_count, total_lines) ==
    Min(safe_start + line_count, total_lines - 1)

\* Mutant of SafeEnd: the range always runs to the last line.
SafeEndWholeFile(safe_start, line_count, total_lines) == total_lines

\* lib.rs 189: (safe_start + line_count).min(total_lines)
SafeEnd(safe_start, line_count, total_lines) == Min(safe_start + line_count, total_lines)

\* The callers that pass every small line argument and every text, in an
\* environment where file operations may fail.
AnyCaller(paths) ==
    [named |-> paths, faulty |-> TRUE, lines |-> 0..MaxLine, texts |-> Texts]

\* The start lines a caller of read_lines passes for p: the small ones and,
\* once it knows total_lines, one far beyond the end.
ReadStarts(p) ==
    LineArgs \cup (IF cache[p] = NoIndex THEN {} ELSE {Len(cache[p]) + 100})

\* The line counts a caller of read_lines passes for p: the small ones, five,
\* and, once it knows it, total_lines.
ReadCounts(p) ==
    LineArgs \cup {5} \cup (IF cache[p] = NoIndex THEN {} ELSE {Len(cache[p])})

\* lib.rs 184-204: lock the cache, look the path up, clamp the range.  The
\* guard lives until the function returns.
ReadLookup(w) ==
    /\ Idle(w)
    /\ lock = 0
    /\ \E p \in named :
       \E s \in ReadStarts(p), n \in ReadCounts(p) :
         LET t == [Begin(w, "read_lines", p, s, n, <<>>) EXCEPT !.pc = "lookup"]
             offsets == CacheGet(cache, p)
             total_lines == Len(offsets)
             safe_start == SafeStart(s, total_lines)
             safe_end == SafeEnd(safe_start, n, total_lines)
             actual_count == safe_end - safe_start
             t1 == [t EXCEPT !.safe_start = safe_start, !.actual_count = actual_count,
                             !.start_byte = offsets[safe_start + 1]]
         IN IF poisoned
            THEN Keep(w, Failure(t, "LockError"), data) /\ UNCHANGED lock
            ELSE IF offsets = NoIndex
            THEN Keep(w, Failure(t, "NotIndexed"), data) /\ UNCHANGED lock
            ELSE IF actual_count = 0
            THEN /\ Commit(w, Return(t, [NoRet EXCEPT !.status = "Ok", !.at = "lookup",
                                                      !.start_line = safe_start]),
                           dir, data)
                 /\ UNCHANGED lock
            ELSE IF safe_end < total_lines
            THEN /\ Keep(w, [t1 EXCEPT !.pc = "open", !.end_byte = offsets[safe_end + 1]], data)
                 /\ lock' = w
            ELSE /\ Keep(w, [t1 EXCEPT !.pc = "stat"], data)
                 /\ lock' = w
    /\ budget' = budget - 1
    /\ UNCHANGED <<cache, poisoned, active, env, pty>>

\* The holder of the guard panics: the guard is dropped and the Mutex poisoned.
Panic(w, t) ==
    /\ Commit(w, Failure(t, "Panic"), dir, data)
    /\ lock' = 0
    /\ poisoned' = TRUE

\* lib.rs 206-210: fs::metadata(&path) for a range that ends at the last
\* line, then end_byte - start_byte.  The subtraction panics when overflow
\* checks are compiled in; otherwise it wraps and the allocation at 215 panics.
ReadStat(w) ==
    /\ At(w, "read_lines", "stat")
    /\ \E fault \in Faults, overflow_checks \in BOOLEAN :
         LET t == th[w]
             size == Len(Content(t.path))
         IN IF fault \/ dir[t.path] = 0
            THEN /\ Commit(w, Failure(t, "IoError"), dir, data)
                 /\ lock' = 0
                 /\ UNCHANGED poisoned
            ELSE IF size < t.start_byte /\ overflow_checks
            THEN Panic(w, t)
            ELSE /\ Keep(w, [t EXCEPT !.pc = "open", !.end_byte = size], data)
                 /\ UNCHANGED <<lock, poisoned>>
    /\ UNCHANGED <<cache, active, env, pty, budget>>

\* lib.rs 212: File::open(&path)
ReadOpen(w) ==
    /\ At(w, "read_lines", "open")
    /\ \E fault \in Faults :
         LET t == th[w]
         IN IF fault \/ dir[t.path] = 0
            THEN /\ Commit(w, Failure(t, "IoError"), dir, data)
                 /\ lock' = 0
            ELSE /\ Commit(w, [t EXCEPT !.pc = "read", !.src = dir[t.path]], dir, data)
                 /\ UNCHANGED lock
    /\ UNCHANGED <<cache, poisoned, active, env, pty, budget>>

\* Mutant of ReadExact: the read starts at the beginning of the file.
ReadExactFromStart(w) ==
    /\ At(w, "read_lines", "read")
    /\ \E fault \in Faults :
         LET t == th[w]
             bytes == data[t.src]
         IN IF t.end_byte < t.start_byte
            THEN Panic(w, t)
            ELSE /\ IF fault \/ Len(bytes) < t.end_byte
                    THEN Commit(w, Failure(t, "IoError"), dir, data)
                    ELSE Commit(w, Return(t, [NoRet EXCEPT
                                     !.status = "Ok", !.at = "read",
                                     !.content = FromUtf8Lossy(Slice(bytes, 0, t.end_byte - t.start_byte)),
                                     !.start_line = t.safe_start,
                                     !.lines_read = t.actual_count]),
                                dir, data)
                 /\ lock' = 0
                 /\ UNCHANGED poisoned
    /\ UNCHANGED <<cache, active, env, pty, budget>>

\* lib.rs 213-224: seek, read_exact of end_byte - start_byte bytes, decode
ReadExact(w) ==
    /\ At(w, "read_lines", "read")
    /\ \E fault \in Faults :
         LET t == th[w]
             bytes == data[t.src]
         IN IF t.end_byte < t.start_byte
            THEN Panic(w, t)
            ELSE /\ IF fault \/ Len(bytes) < t.end_byte
                    THEN Commit(w, Failure(t, "IoError"), dir, data)
                    ELSE Commit(w, Return(t, [NoRet EXCEPT
                                     !.status = "Ok", !.at = "read",
                                     !.content = FromUtf8Lossy(Slice(bytes, t.start_byte, t.end_byte)),
                                     !.start_line = t.safe_start,
                                     !.lines_read = t.actual_count]),
                                dir, data)
                 /\ lock' = 0
                 /\ UNCHANGED poisoned
    /\ UNCHANGED <<cache, active, env, pty, budget>>

\* ------------------------------------------------------ patch_file_lines

\* Mutant of PatchEnd: the line at the end of the range is replaced too.
PatchEndInclusive(s, original_line_count, total) ==
    Min(s + original_line_count + 1, total)

\* lib.rs 242: start_line.min(total.saturating_sub(1))
PatchStart(start_line, total) == Min(start_line, SaturatingSub(total, 1))

\* lib.rs 243: (s + original_line_count).min(total)
PatchEnd(s, original_line_count, total) == Min(s + original_line_count, total)

\* Mutant of PatchPushOffset: the offset is pushed without the size test.
PatchPushOffsetAlways(offsets, byte_pos, file_size) == Append(offsets, byte_pos)

\* lib.rs 295-297: if byte_pos <= file_size { offsets.push(byte_pos); }
PatchPushOffset(offsets, byte_pos, file_size) ==
    IF byte_pos <= file_size THEN Append(offsets, byte_pos) ELSE offsets

\* lib.rs 292-298: the loop of the re-index pass
RECURSIVE PatchScanLoop(_, _, _, _)
PatchScanLoop(segs, byte_pos, offsets, file_size) ==
    IF segs = <<>> THEN offsets
    ELSE LET next_pos == byte_pos + Len(Head(segs)) + 1
         IN PatchScanLoop(Tail(segs), next_pos,
                          PatchPushOffset(offsets, next_pos, file_size), file_size)

\* lib.rs 289-300: the offsets vector of the re-index pass
PatchBuildOffsets(bytes, file_size) == PatchScanLoop(SplitLF(bytes), 0, <<0>>, file_size)

\* A write that would grow the file past the disk's capacity fails.
DiskFull(bytes, pos, buf) == Max(Len(bytes), pos + Len(buf)) > DiskLimit

\* lib.rs 239-247: lock the cache, look the path up, resolve the byte span
PatchLookup(w) ==
    /\ Idle(w)
    /\ lock = 0
    /\ \E p \in named, sl \in LineArgs, n \in LineArgs, text \in NewContents :
         LET t == [Begin(w, "patch_file_lines", p, sl, n, text) EXCEPT !.pc = "lookup"]
             offsets == CacheGet(cache, p)
             total == Len(offsets)
             s == PatchStart(sl, total)
             e == PatchEnd(s, n, total)
             t1 == [t EXCEPT !.start_byte = offsets[s + 1]]
         IN IF poisoned
            THEN Keep(w, Failure(t, "LockError"), data) /\ UNCHANGED lock
            ELSE IF offsets = NoIndex
            THEN Keep(w, Failure(t, "NotIndexed"), data) /\ UNCHANGED lock
            ELSE IF e < total
            THEN /\ Keep(w, [t1 EXCEPT !.pc = "open", !.end_byte = offsets[e + 1]], data)
                 /\ UNCHANGED lock
            ELSE /\ Keep(w, [t1 EXCEPT !.pc = "stat"], data)
                 /\ lock' = w
    /\ budget' = budget - 1
    /\ UNCHANGED <<cache, poisoned, active, env, pty>>

\* lib.rs 248-251: fs::metadata(&path) inside the block that holds the guard
PatchStat(w) ==
    /\ At(w, "patch_file_lines", "stat")
    /\ \E fault \in Faults :
         LET t == th[w]
         IN IF fault \/ dir[t.path] = 0
            THEN Commit(w, Failure(t, "IoError"), dir, data)
            ELSE Keep(w, [t EXCEPT !.pc = "open", !.end_byte = Len(Content(t.path))], data)
    /\ lock' = 0
    /\ UNCHANGED <<cache, poisoned, active, env, pty, budget>>

\* lib.rs 256: File::open(file_path)
PatchOpen(w) ==
    /\ At(w, "patch_file_lines", "open")
    /\ \E fault \in Faults :
         LET t == th[w]
         IN IF fault \/ dir[t.path] = 0
            THEN Commit(w, Failure(t, "IoError"), dir, data)
            ELSE Commit(w, [t EXCEPT !.pc = "create", !.src = dir[t.path]], dir, data)
    /\ UNCHANGED <<cache, lock, poisoned, active, env, pty, budget>>

\* lib.rs 254, 257: File::create(&temp_path)
PatchCreate(w) ==
    /\ At(w, "patch_file_lines", "create")
    /\ \E fault \in Faults :
         LET t == th[w]
             temp_path == TempPath(t.path)
             d == CreateDir(dir, th, temp_path)
         IN IF fault
            THEN Commit(w, Failure(t, "IoError"), dir, data)
            ELSE Commit(w, [t EXCEPT !.pc = IF t.start_byte > 0 THEN "copy_head" ELSE "write",
                                     !.dest = d[temp_path],
                                     !.remaining = t.start_byte],
                        d, CreateData(dir, data, th, temp_path))
    /\ UNCHANGED <<cache, lock, poisoned, active, env, pty, budget>>

\* lib.rs 263-269: one round of the loop that copies the bytes before the span
PatchCopyHead(w) ==
    /\ At(w, "patch_file_lines", "copy_head")
    /\ \E fault \in Faults :
         LET t == th[w]
             to_read == Min(t.remaining, ChunkSize)
             buf == ReadAt(data[t.src], t.src_pos, to_read)
             n == Len(buf)
         IN IF fault \/ (n > 0 /\ DiskFull(data[t.dest], t.dest_pos, buf))
            THEN Commit(w, Failure(t, "IoError"), dir, data)
            ELSE IF n = 0
            THEN Keep(w, [t EXCEPT !.pc = "write"], data)
            ELSE Keep(w, [t EXCEPT !.pc = IF t.remaining = n THEN "write" ELSE "copy_head",
                                   !.src_pos = @ + n,
                                   !.dest_pos = @ + n,
                                   !.remaining = @ - n],
                      [data EXCEPT ![t.dest] = WriteAt(@, t.dest_pos, buf)])
    /\ UNCHANGED <<cache, lock, poisoned, active, env, pty, budget>>

\* lib.rs 273, 276: write new_content, seek the source to end_byte
PatchWrite(w) ==
    /\ At(w, "patch_file_lines", "write")
    /\ \E fault \in Faults :
         LET t == th[w]
         IN IF fault \/ DiskFull(data[t.dest], t.dest_pos, t.new_content)
            THEN Commit(w, Failure(t, "IoError"), dir, data)
            ELSE Keep(w, [t EXCEPT !.pc = "copy_tail",
                                   !.dest_pos = @ + Len(t.new_content),
                                   !.src_pos = t.end_byte],
                      [data EXCEPT ![t.dest] = WriteAt(@, t.dest_pos, t.new_content)])
    /\ UNCHANGED <<cache, lock, poisoned, active, env, pty, budget>>

\* lib.rs 277: one round of io::copy(&mut source, &mut dest)
PatchCopyTail(w) ==
    /\ At(w, "patch_file_lines", "copy_tail")
    /\ \E fault \in Faults :
         LET t == th[w]
             buf == ReadAt(data[t.src], t.src_pos, ChunkSize)
             n == Len(buf)
         IN IF fault \/ (n > 0 /\ DiskFull(data[t.dest], t.dest_pos, buf))
            THEN Commit(w, Failure(t, "IoError"), dir, data)
            ELSE IF n = 0
            THEN Keep(w, [t EXCEPT !.pc = "rename"], data)
            ELSE Keep(w, [t EXCEPT !.src_pos = @ + n, !.dest_pos = @ + n],
                      [data EXCEPT ![t.dest] = WriteAt(@, t.dest_pos, buf)])
    /\ UNCHANGED <<cache, lock, poisoned, active, env, pty, budget>>

\* lib.rs 280, 283: fs::rename(&temp_path, file_path), drop(source)
PatchRename(w) ==
    /\ At(w, "patch_file_lines", "rename")
    /\ \E fault \in Faults :
         LET t == th[w]
             temp_path == TempPath(t.path)
         IN IF fault \/ dir[temp_path] = 0
            THEN Commit(w, Failure(t, "IoError"), dir, data)
            ELSE Commit(w, [t EXCEPT !.pc = "reopen", !.src = 0, !.src_pos = 0],
                        RenameDir(dir, temp_path, t.path), data)
    /\ UNCHANGED <<cache, lock, poisoned, active, env, pty, budget>>

\* lib.rs 285: File::open(file_path) for the re-index
PatchReopen(w) ==
    /\ At(w, "patch_file_lines", "reopen")
    /\ \E fault \in Faults :
         LET t == th[w]
         IN IF fault \/ dir[t.path] = 0
            THEN Commit(w, Failure(t, "IoError"), dir, data)
            ELSE Commit(w, [t EXCEPT !.pc = "restat", !.src = dir[t.path]], dir, data)
    /\ UNCHANGED <<cache, lock, poisoned, active, env, pty, budget>>

\* lib.rs 286: fs::metadata(file_path)?.len()
PatchRestat(w) ==
    /\ At(w, "patch_file_lines", "restat")
    /\ \E fault \in Faults :
         LET t == th[w]
         IN IF fault \/ dir[t.path] = 0
            THEN Commit(w, Failure(t, "IoError"), dir, data)
            ELSE Keep(w, [t EXCEPT !.pc = "rescan", !.file_size = Len(Content(t.path))], data)
    /\ UNCHANGED <<cache, lock, poisoned, active, env, pty, budget>>

\* lib.rs 289-300: the scan of the re-opened file
PatchRescan(w) ==
    /\ At(w, "patch_file_lines", "rescan")
    /\ \E fault \in Faults :
         LET t == th[w]
         IN IF fault
            THEN Commit(w, Failure(t, "IoError"), dir, data)
            ELSE Keep(w, [t EXCEPT !.pc = "stat_again",
                                   !.offsets = PatchBuildOffsets(data[t.src], t.file_size)],
                      data)
    /\ UNCHANGED <<cache, lock, poisoned, active, env, pty, budget>>

\* lib.rs 303-304: fs::metadata(file_path) again, for the returned size
PatchStatAgain(w) ==
    /\ At(w, "patch_file_lines", "stat_again")
    /\ \E fault \in Faults :
         LET t == th[w]
         IN IF fault \/ dir[t.path] = 0
            THEN Commit(w, Failure(t, "IoError"), dir, data)
            ELSE Keep(w, [t EXCEPT !.pc = "insert", !.file_size = Len(Content(t.path))], data)
    /\ UNCHANGED <<cache, lock, poisoned, active, env, pty, budget>>

\* lib.rs 309-312: lock, cache.insert(path, offsets), return
PatchInsert(w) ==
    /\ At(w, "patch_file_lines", "insert")
    /\ lock = 0
    /\ LET t == th[w]
       IN IF poisoned
          THEN /\ Commit(w, Failure(t, "LockError"), dir, data)
               /\ UNCHANGED cache
          ELSE /\ cache' = [cache EXCEPT ![t.path] = t.offsets]
               /\ Commit(w, Return(t, [NoRet EXCEPT !.status = "Ok", !.at = "insert",
                                                    !.total_lines = Len(t.offsets),
                                                    !.file_size = t.file_size]),
                         dir, data)
    /\ UNCHANGED <<lock, poisoned, active, env, pty, budget>>

\* -------------------------------- safe_save_file and write_file_content

\* lib.rs 331, 334: File::create(&temp_path)
SaveCreate(w) ==
    /\ Idle(w)
    /\ \E p \in named, text \in NewContents, fault \in Faults :
         LET t == [Begin(w, "safe_save_file", p, 0, 0, text) EXCEPT !.pc = "create"]
             temp_path == TempPath(p)
             d == CreateDir(dir, th, temp_path)
         IN IF fault
            THEN Commit(w, Failure(t, "IoError"), dir, data)
            ELSE Commit(w, [t EXCEPT !.pc = "write", !.dest = d[temp_path]],
                        d, CreateData(dir, data, th, temp_path))
    /\ budget' = budget - 1
    /\ UNCHANGED <<cache, lock, poisoned, active, env, pty>>

\* lib.rs 335-338: write_all(content), sync_all
SaveWrite(w) ==
    /\ At(w, "safe_save_file", "write")
    /\ \E fault \in Faults :
         LET t == th[w]
         IN IF fault \/ DiskFull(data[t.dest], t.dest_pos, t.new_content)
            THEN Commit(w, Failure(t, "IoError"), dir, data)
            ELSE Keep(w, [t EXCEPT !.pc = "rename", !.dest_pos = @ + Len(t.new_content)],
                      [data EXCEPT ![t.dest] = WriteAt(@, t.dest_pos, t.new_content)])
    /\ UNCHANGED <<cache, lock, poisoned, active, env, pty, budget>>

\* Mutant of SaveRename: a successful save drops the cache entry of the path.
SaveRenameInvalidates(w) ==
    /\ At(w, "safe_save_file", "rename")
    /\ \E fault \in Faults :
         LET t == th[w]
             temp_path == TempPath(t.path)
         IN IF fault \/ dir[temp_path] = 0
            THEN /\ Commit(w, Failure(t, "IoError"), dir, data)
                 /\ UNCHANGED cache
            ELSE /\ Commit(w, Return(t, [NoRet EXCEPT !.status = "Ok", !.at = "rename"]),
                           RenameDir(dir, temp_path, t.path), data)
                 /\ cache' = [cache EXCEPT ![t.path] = NoIndex]
    /\ UNCHANGED <<lock, poisoned, active, env, pty, budget>>

\* lib.rs 341-343: fs::rename(&temp_path, file_path), return
SaveRename(w) ==
    /\ At(w, "safe_save_file", "rename")
    /\ \E fault \in Faults :
         LET t == th[w]
             temp_path == TempPath(t.path)
         IN IF fault \/ dir[temp_path] = 0
            THEN Commit(w, Failure(t, "IoError"), dir, data)
            ELSE Commit(w, Return(t, [NoRet EXCEPT !.status = "Ok", !.at = "rename"]),
                        RenameDir(dir, temp_path, t.path), data)
    /\ UNCHANGED <<cache, lock, poisoned, active, env, pty, budget>>

\* The response of a returned command is delivered to the caller and the
\* worker thread is free for the next command.
Respond(w) ==
    /\ w \in active
    /\ th[w].pc = "done"
    /\ th' = [th EXCEPT ![w] = IdleThread]
    /\ UNCHANGED <<dir, data, cache, lock, poisoned, active, env, pty, budget>>

\* ------------------------------------------------- terminal sessions

\* The ids the callers pass to write_terminal, resize_terminal and
\* kill_terminal: id 0 is never assigned, the others are assigned in order.
TermIds == 0..MaxId
\* Window heights the callers pass.
TermRows == {24, 40}
\* Input the callers send.
TermData == {<<ByteA>>}

NoTermRet == [status |-> "none", id |-> 0]
IdleCall == [pc |-> "idle", op |-> "none", id |-> 0, rows |-> 0, ret |-> NoTermRet]

\* terminal.rs 25-30: PtyState::new()
PtyStateNew ==
    /\ sessions = [k \in {} |-> 0]
    /\ next_id = 1
    /\ tt = [w \in active |-> IdleCall]
    /\ returned = <<>>
    /\ killed = {}

\* HashMap::insert and HashMap::remove on the sessions map.
SessionsInsert(m, id, session) ==
    [k \in DOMAIN m \cup {id} |-> IF k = id THEN session ELSE m[k]]
SessionsRemove(m, id) == [k \in DOMAIN m \ {id} |-> m[k]]

TermIdle(w) == w \in active /\ tt[w].pc = "idle" /\ budget > 0
TermAt(w, op, pc) == w \in active /\ tt[w].op = op /\ tt[w].pc = pc
TermReturn(t, status) == [t EXCEPT !.pc = "done", !.ret = [NoTermRet EXCEPT !.status = status]]

\* The file engine's state, which no terminal command touches.
engine == <<dir, data, cache, lock, poisoned, th, active, env>>

\* terminal.rs 56-77: openpty, spawn_command
SpawnOpen(w) ==
    /\ TermIdle(w)
    /\ \E rows \in TermRows, fault \in BOOLEAN :
         LET t == [IdleCall EXCEPT !.op = "spawn_terminal", !.rows = rows]
         IN tt' = [tt EXCEPT ![w] = IF fault THEN TermReturn(t, "SpawnFailed")
                                    ELSE [t EXCEPT !.pc = "assign"]]
    /\ budget' = budget - 1
    /\ UNCHANGED <<engine, sessions, next_id, returned, killed>>

\* Mutant of SpawnAssign: the counter is read and not incremented.
SpawnAssignNoIncrement(w) ==
    /\ TermAt(w, "spawn_terminal", "assign")
    /\ tt' = [tt EXCEPT ![w] = [@ EXCEPT !.pc = "clone", !.id = next_id]]
    /\ UNCHANGED <<engine, budget, sessions, next_id, returned, killed>>

\* terminal.rs 80-85: id = *next; *next += 1, under the next_id Mutex.
\* The counter is a u32; the calls of a run are far fewer than 2^32.
SpawnAssign(w) ==
    /\ TermAt(w, "spawn_terminal", "assign")
    /\ tt' = [tt EXCEPT ![w] = [@ EXCEPT !.pc = "clone", !.id = next_id]]
    /\ next_id' = next_id + 1
    /\ UNCHANGED <<engine, budget, sessions, returned, killed>>

\* terminal.rs 88-97: try_clone_reader, take_writer
SpawnClone(w) ==
    /\ TermAt(w, "spawn_terminal", "clone")
    /\ \E fault \in BOOLEAN :
         tt' = [tt EXCEPT ![w] = IF fault THEN TermReturn(@, "SpawnFailed")
                                  ELSE [@ EXCEPT !.pc = "insert"]]
    /\ UNCHANGED <<engine, budget, sessions, next_id, returned, killed>>

\* terminal.rs 100-142: sessions.insert(id, session) under the sessions
\* Mutex, start of the reader thread, Ok(id)
SpawnInsert(w) ==
    /\ TermAt(w, "spawn_terminal", "insert")
    /\ LET t == tt[w]
       IN /\ sessions' = SessionsInsert(sessions, t.id, [rows |-> t.rows, input |-> <<>>])
          /\ returned' = Append(returned, t.id)
          /\ tt' = [tt EXCEPT ![w] = [t EXCEPT !.pc = "done",
                                               !.ret = [status |-> "Ok", id |-> t.id]]]
    /\ UNCHANGED <<engine, budget, next_id, killed>>

\* terminal.rs 152-164: write_terminal, the whole body under the sessions Mutex
WriteTerminal(w) ==
    /\ TermIdle(w)
    /\ \E id \in TermIds, input \in TermData, fault \in BOOLEAN :
         LET t == [IdleCall EXCEPT !.op = "write_terminal", !.id = id]
         IN IF id \notin DOMAIN sessions
            THEN /\ tt' = [tt EXCEPT ![w] = TermReturn(t, "NotFound")]
                 /\ UNCHANGED sessions
            ELSE IF fault
            THEN /\ tt' = [tt EXCEPT ![w] = TermReturn(t, "WriteFailed")]
                 /\ UNCHANGED sessions
            ELSE /\ tt' = [tt EXCEPT ![w] = TermReturn(t, "Ok")]
                 /\ sessions' = [sessions EXCEPT ![id].input = input]
    /\ budget' = budget - 1
    /\ UNCHANGED <<engine, next_id, returned, killed>>

\* terminal.rs 175-188: resize_terminal, the whole body under the sessions Mutex
ResizeTerminal(w) ==
    /\ TermIdle(w)
    /\ \E id \in TermIds, rows \in TermRows, fault \in BOOLEAN :
         LET t == [IdleCall EXCEPT !.op = "resize_terminal", !.id = id, !.rows = rows]
         IN IF id \notin DOMAIN sessions
            THEN /\ tt' = [tt EXCEPT ![w] = TermReturn(t, "NotFound")]
                 /\ UNCHANGED sessions
            ELSE IF fault
            THEN /\ tt' = [tt EXCEPT ![w] = TermReturn(t, "ResizeFailed")]
                 /\ UNCHANGED sessions
            ELSE /\ tt' = [tt EXCEPT ![w] = TermReturn(t, "Ok")]
                 /\ sessions' = [sessions EXCEPT ![id].rows = rows]
    /\ budget' = budget - 1
    /\ UNCHANGED <<engine, next_id, returned, killed>>

\* terminal.rs 193-197: kill_terminal
KillTerminal(w) ==
    /\ TermIdle(w)
    /\ \E id \in TermIds :
         LET t == [IdleCall EXCEPT !.op = "kill_terminal", !.id = id]
         IN /\ tt' = [tt EXCEPT ![w] = TermReturn(t, "Ok")]
            /\ sessions' = SessionsRemove(sessions, id)
            /\ killed' = killed \cup ({id} \cap DOMAIN sessions)
    /\ budget' = budget - 1
    /\ UNCHANGED <<engine, next_id, returned>>

\* The result of a terminal command is delivered to the caller.
TermRespond(w) ==
    /\ w \in active
    /\ tt[w].pc = "done"
    /\ tt' = [tt EXCEPT ![w] = IdleCall]
    /\ UNCHANGED <<engine, budget, sessions, next_id, returned, killed>>

\* ------------------------------------------------------ the specification

\* Longer files the program may start with: the example, a terminated line
\* of valid two-byte UTF-8, two empty lines, an unterminated last line, an
\* invalid byte after a line break.
LongerFiles ==
    {ExampleFile, <<ByteLead, ByteCont, LF>>, <<LF, LF>>, <<ByteA, LF, ByteA>>,
     <<ByteA, LF, ByteLead>>}

\* The paths named when commands are issued one at a time.
SpecPaths == {<<"a", "txt">>, <<"a", "tmp">>}

\* The contents a file can have when the program starts.
InitContents == SeqsUpTo(Bytes, MaxLen) \cup LongerFiles
\* A second file beside the one whose content varies.
Filler == <<ByteA, LF, ByteA>>

\* The files present when the program starts: one path holds any of the
\* initial contents or nothing, every other path holds the filler or nothing.
InitFiles ==
    {f \in [FsPaths -> InitContents \cup {Absent}] :
        /\ \A q \in FsPaths \ SpecPaths : f[q] = Absent
        /\ \E p \in FsPaths : \A q \in FsPaths \ {p} : f[q] \in {Absent, Filler}}

\* LineIndexCache(Mutex::new(HashMap::new())) (lib.rs 360) over the files.
InitStateOf(files) ==
    /\ \E f \in files :
         LET slot(p) == CHOOSE k \in 1..Len(PathOrder) : PathOrder[k] = p
             r == Renumber([p \in FsPaths |-> IF f[p] = Absent THEN 0 ELSE slot(p)],
                           [n \in Inodes |->
                              IF n <= Len(PathOrder) /\ f[PathOrder[n]] # Absent
                              THEN f[PathOrder[n]] ELSE <<>>],
                           <<>>)
         IN dir = r.d /\ data = r.dt
    /\ cache = [p \in Paths |-> NoIndex]
    /\ lock = 0
    /\ poisoned = FALSE
    /\ th = [w \in active |-> IdleThread]
    /\ PtyStateNew

InitState == InitStateOf(InitFiles)

\* One worker thread: the commands are issued one at a time.
Init ==
    /\ active = {1} /\ env = AnyCaller(SpecPaths) /\ budget = MaxCalls
    /\ InitState

Next ==
    \/ \E w \in Workers : IndexOpen(w)
    \/ \E w \in Workers : IndexStat(w)
    \/ \E w \in Workers : IndexScan(w)
    \/ \E w \in Workers : IndexInsert(w)
    \/ \E w \in Workers : ReadLookup(w)
    \/ \E w \in Workers : ReadStat(w)
    \/ \E w \in Workers : ReadOpen(w)
    \/ \E w \in Workers : ReadExact(w)
    \/ \E w \in Workers : PatchLookup(w)
    \/ \E w \in Workers : PatchStat(w)
    \/ \E w \in Workers : PatchOpen(w)
    \/ \E w \in Workers : PatchCreate(w)
    \/ \E w \in Workers : PatchCopyHead(w)
    \/ \E w \in Workers : PatchWrite(w)
    \/ \E w \in Workers : PatchCopyTail(w)
    \/ \E w \in Workers : PatchRename(w)
    \/ \E w \in Workers : PatchReopen(w)
    \/ \E w \in Workers : PatchRestat(w)
    \/ \E w \in Workers : PatchRescan(w)
    \/ \E w \in Workers : PatchStatAgain(w)
    \/ \E w \in Workers : PatchInsert(w)
    \/ \E w \in Workers : SaveCreate(w)
    \/ \E w \in Workers : SaveWrite(w)
    \/ \E w \in Workers : SaveRename(w)
    \/ \E w \in Workers : Respond(w)

Spec == Init /\ [][Next]_vars

\* A longer session over one two-line file: long enough for an index to go
\* stale, a read to panic on it and a further command to follow.
OneFile == {[p \in FsPaths |-> IF p = <<"a", "txt">> THEN Filler ELSE Absent]}
InitLong ==
    /\ active = {1} /\ env = AnyCaller(SpecPaths) /\ budget = MaxCalls + 2
    /\ InitStateOf(OneFile)
SpecLong == InitLong /\ [][Next]_vars

\* The commands of the indexing engine alone, issued one at a time: no file
\* is written except by patch_file_lines.
NextEngine ==
    \/ \E w \in Workers : IndexOpen(w)
    \/ \E w \in Workers : IndexStat(w)
    \/ \E w \in Workers : IndexScan(w)
    \/ \E w \in Workers : IndexInsert(w)
    \/ \E w \in Workers : ReadLookup(w)
    \/ \E w \in Workers : ReadStat(w)
    \/ \E w \in Workers : ReadOpen(w)
    \/ \E w \in Workers : ReadExact(w)
    \/ \E w \in Workers : PatchLookup(w)
    \/ \E w \in Workers : PatchStat(w)
    \/ \E w \in Workers : PatchOpen(w)
    \/ \E w \in Workers : PatchCreate(w)
    \/ \E w \in Workers : PatchCopyHead(w)
    \/ \E w \in Workers : PatchWrite(w)
    \/ \E w \in Workers : PatchCopyTail(w)
    \/ \E w \in Workers : PatchRename(w)
    \/ \E w \in Workers : PatchReopen(w)
    \/ \E w \in Workers : PatchRestat(w)
    \/ \E w \in Workers : PatchRescan(w)
    \/ \E w \in Workers : PatchStatAgain(w)
    \/ \E w \in Workers : PatchInsert(w)
    \/ \E w \in Workers : Respond(w)

SpecEngine == InitLong /\ [][NextEngine]_vars

\* Two worker threads serve commands concurrently on two files of one
\* directory that differ only in extension.  Both files have been indexed:
\* the cache holds for each the index index_file builds for it.  No file
\* operation fails by itself, so every error is of the commands' own making.
PairPaths == {<<"a", "txt">>, <<"a", "log">>}
PairFiles ==
    [p \in FsPaths |-> IF p = <<"a", "txt">> THEN Filler
                       ELSE IF p = <<"a", "log">> THEN <<LF, LF>> ELSE Absent]
PairCaller ==
    [named |-> PairPaths, faulty |-> FALSE, lines |-> {0, 2}, texts |-> {<<ByteA, LF>>}]
InitPair ==
    /\ active = {1, 2} /\ env = PairCaller /\ budget = MaxCalls
    /\ LET slot(p) == CHOOSE k \in 1..Len(PathOrder) : PathOrder[k] = p
           r == Renumber([p \in FsPaths |-> IF PairFiles[p] = Absent THEN 0 ELSE slot(p)],
                         [n \in Inodes |->
                            IF n <= Len(PathOrder) /\ PairFiles[PathOrder[n]] # Absent
                            THEN PairFiles[PathOrder[n]] ELSE <<>>],
                         <<>>)
       IN dir = r.d /\ data = r.dt
    /\ cache = [p \in Paths |->
                  IF PairFiles[p] = Absent THEN NoIndex
                  ELSE BuildOffsets(PairFiles[p], Len(PairFiles[p]))]
    /\ lock = 0
    /\ poisoned = FALSE
    /\ th = [w \in active |-> IdleThread]
    /\ PtyStateNew
SpecPair == InitPair /\ [][Next]_vars

\* The terminal commands, served by two worker threads.
InitTerminal ==
    /\ active = {1, 2} /\ env = AnyCaller(SpecPaths) /\ budget = MaxCalls + 2
    /\ InitStateOf(OneFile)

NextTerminal ==
    \/ \E w \in Workers : SpawnOpen(w)
    \/ \E w \in Workers : SpawnAssign(w)
    \/ \E w \in Workers : SpawnClone(w)
    \/ \E w \in Workers : SpawnInsert(w)
    \/ \E w \in Workers : WriteTerminal(w)
    \/ \E w \in Workers : ResizeTerminal(w)
    \/ \E w \in Workers : KillTerminal(w)
    \/ \E w \in Workers : TermRespond(w)

SpecTerminal == InitTerminal /\ [][NextTerminal]_vars

\* ------------------------------------------------------------- properties

\* Worker w has returned from command op and its result awaits delivery.
Done(w, op) == w \in active /\ th[w].pc = "done" /\ th[w].op = op
Succeeded(w, op) == Done(w, op) /\ th[w].ret.status = "Ok"

\* The index index_file builds from scratch for a file of these bytes.
IndexOf(bytes) == BuildOffsets(bytes, Len(bytes))

\* The command of worker w was issued on an indexed file that nothing had
\* modified since it was indexed.
Fresh(w) == th[w].pre # Absent /\ th[w].index0 = IndexOf(th[w].pre)

\* old[0, sb) followed by new followed by old[eb, end of file)
Splice(old, sb, eb, new) == Slice(old, 0, sb) \o new \o Slice(old, eb, Len(old))

\* The clamped line range of a call with arguments (start_line, line_count)
\* against index idx, and its byte span in a file of the given size.
ClampStart(idx, start_line) == Min(start_line, Max(Len(idx) - 1, 0))
ClampEnd(idx, start_line, line_count) ==
    Min(ClampStart(idx, start_line) + line_count, Len(idx))
SpanStart(idx, start_line) == idx[ClampStart(idx, start_line) + 1]
SpanEnd(idx, start_line, line_count, size) ==
    LET e == ClampEnd(idx, start_line, line_count)
    IN IF e < Len(idx) THEN idx[e + 1] ELSE size

PatchBeforeRename == {"stat", "open", "create", "copy_head", "write", "copy_tail", "rename"}
PatchAfterRename == {"reopen", "restat", "rescan", "stat_again", "insert"}

\* C1: at every point of a patch_file_lines call the real path holds either
\* the complete pre-patch content or the complete post-patch content, and
\* only the rename changes it: up to the rename the path holds the content it
\* had when the call was issued, after it the spliced content.
C1_RealPathOldOrNew ==
    \A w \in active :
      LET t == th[w]
      IN t.op = "patch_file_lines" =>
           /\ t.pc \in PatchBeforeRename => Content(t.path) = t.pre
           /\ t.pc \in PatchAfterRename =>
                Content(t.path) = Splice(t.pre, t.start_byte, t.end_byte, t.new_content)

\* C2: whenever patch_file_lines returns an error, whatever step failed, the
\* file at path has the content it had before the call.
C2_ErrorLeavesFile ==
    \A w \in active :
      Done(w, "patch_file_lines") /\ th[w].ret.status # "Ok" =>
        Content(th[w].path) = th[w].pre

\* C3: when patch_file_lines returns successfully, the cache entry for path
\* is the index index_file would build from scratch for the file now at path,
\* and the returned total_lines and file_size are the ones index_file would
\* report for it.
C3_PatchCacheIsFreshIndex ==
    \A w \in active :
      Succeeded(w, "patch_file_lines") =>
        LET now == Content(th[w].path)
        IN /\ now # Absent
           /\ cache[th[w].path] = IndexOf(now)
           /\ th[w].ret.total_lines = Len(IndexOf(now))
           /\ th[w].ret.file_size = Len(now)

\* A patch that replaced a line of a file of several lines has returned.
C3_Witness ==
    \E w \in active :
      /\ Succeeded(w, "patch_file_lines")
      /\ Fresh(w)
      /\ Len(th[w].index0) >= 2
      /\ th[w].line_count >= 1
      /\ th[w].new_content # <<>>
      /\ Content(th[w].path) # th[w].pre
      /\ cache[th[w].path] # th[w].index0

\* C4: for an indexed file nothing else has modified, a successful
\* patch_file_lines(path, start_line, original_line_count, new_content)
\* leaves the file equal to old[0, start_byte) ++ new_content ++
\* old[end_byte, end), [start_byte, end_byte) being the byte span of the
\* clamped line range.
C4_PatchedContent ==
    \A w \in active :
      Succeeded(w, "patch_file_lines") /\ Fresh(w) =>
        LET t == th[w]
        IN Content(t.path) =
             Splice(t.pre, SpanStart(t.index0, t.start_line),
                    SpanEnd(t.index0, t.start_line, t.line_count, Len(t.pre)),
                    t.new_content)

NumLF(bytes) == Cardinality({k \in 1..Len(bytes) : bytes[k] = LF})

\* Offset of the byte just after the i-th LF of bytes.
AfterLF(bytes, i) ==
    CHOOSE k \in 1..Len(bytes) :
      bytes[k] = LF /\ Cardinality({j \in 1..k : bytes[j] = LF}) = i

WellFormedIndex(idx, bytes) ==
    /\ idx[1] = 0
    /\ \A i \in 1..(Len(idx) - 1) : idx[i] <= idx[i + 1]
    /\ \A i \in 1..Len(idx) : idx[i] <= Len(bytes)
    /\ Len(idx) = 1 + NumLF(bytes)
    /\ \A i \in 1..NumLF(bytes) : idx[i + 1] = AfterLF(bytes, i)

\* C5: every index placed in the cache by index_file or patch_file_lines
\* starts with 0, is non-decreasing, has no entry beyond the file size, has
\* 1 + (number of LF bytes) entries, and entry i is the offset just after the
\* i-th LF; the 9-byte file a,LF,b,b,LF,c,c,c,LF gets [0, 2, 5, 9] and
\* total_lines = 4.
C5_IndexWellFormed ==
    \A w \in active :
      Succeeded(w, "index_file") \/ Succeeded(w, "patch_file_lines") =>
        LET now == Content(th[w].path)
        IN /\ WellFormedIndex(cache[th[w].path], now)
           /\ th[w].ret.total_lines = 1 + NumLF(now)
           /\ now = ExampleFile =>
                cache[th[w].path] = <<0, 2, 5, 9>> /\ th[w].ret.total_lines = 4

\* index_file has returned for the 9-byte example file.
C5_Witness ==
    \E w \in active :
      /\ Succeeded(w, "index_file")
      /\ Content(th[w].path) = ExampleFile
      /\ cache[th[w].path] = <<0, 2, 5, 9>>

\* read_lines(path, 0, total_lines) has returned for a freshly indexed file.
WholeFileRead(w) ==
    /\ Succeeded(w, "read_lines")
    /\ Fresh(w)
    /\ th[w].start_line = 0
    /\ th[w].line_count = Len(th[w].index0)

\* C6 as stated: for every file content, index_file then
\* read_lines(path, 0, total_lines) returns the whole content exactly, with
\* start_line = 0 and lines_read = total_lines.
C6_RoundTripExact ==
    \A w \in active :
      WholeFileRead(w) =>
        /\ th[w].ret.content = th[w].pre
        /\ th[w].ret.start_line = 0
        /\ th[w].ret.lines_read = Len(th[w].index0)

\* C6 amended: index_file then read_lines(path, 0, total_lines) returns
\* start_line = 0, lines_read = total_lines and the lossy UTF-8 decoding of the
\* whole file: well-formed text no shorter than the file, equal to the
\* file's bytes exactly when the file is valid UTF-8.
C6_RoundTripLossy ==
    \A w \in active :
      WholeFileRead(w) =>
        /\ th[w].ret.start_line = 0
        /\ th[w].ret.lines_read = Len(th[w].index0)
        /\ th[w].ret.content = FromUtf8Lossy(th[w].pre)
        /\ IsValidUtf8(th[w].ret.content)
        /\ Len(th[w].ret.content) >= Len(th[w].pre)
        /\ th[w].ret.content = th[w].pre <=> IsValidUtf8(th[w].pre)

\* The whole of a two-line file that is not valid UTF-8 has been read.
C6_Witness ==
    \E w \in active :
      /\ WholeFileRead(w)
      /\ Len(th[w].index0) >= 2
      /\ ~IsValidUtf8(th[w].pre)
      /\ th[w].ret.content # th[w].pre

\* C7 as stated: read_lines with start_line at or beyond the end of the index
\* returns a zero-length result with lines_read = 0.
C7_BeyondEndReadsNothing ==
    \A w \in active :
      Succeeded(w, "read_lines") /\ th[w].start_line >= Len(th[w].index0) =>
        th[w].ret.lines_read = 0 /\ th[w].ret.content = <<>>

\* C7 amended: read_lines with start_line at or beyond the end of the index
\* is clamped to the last line: it returns start_line = total_lines - 1 and
\* lines_read = min(line_count, 1), the text being the last line's; only
\* line_count = 0 gives the zero-length result, returned before any file
\* operation.
C7_BeyondEndReadsLastLine ==
    \A w \in active :
      Succeeded(w, "read_lines") /\ th[w].start_line >= Len(th[w].index0) =>
        LET t == th[w]
            total_lines == Len(t.index0)
            now == Content(t.path)
        IN /\ t.ret.start_line = total_lines - 1
           /\ t.ret.lines_read = Min(t.line_count, 1)
           /\ t.line_count = 0 => t.ret.content = <<>> /\ t.ret.at = "lookup"
           /\ t.line_count >= 1 =>
                /\ t.ret.at = "read"
                /\ t.ret.content =
                     FromUtf8Lossy(Slice(now, t.index0[total_lines], Len(now)))

\* read_lines(path, total_lines + 100, 5) has returned one line.
C7_Witness ==
    \E w \in active :
      /\ Succeeded(w, "read_lines")
      /\ th[w].start_line = Len(th[w].index0) + 100
      /\ th[w].line_count = 5
      /\ th[w].ret.lines_read = 1
      /\ th[w].ret.content # <<>>

\* The bytes of the file now at the path of w's read_lines call that the
\* clamped line range spans.
RangeBytes(w) ==
    LET t == th[w]
        now == Content(t.path)
    IN Slice(now, SpanStart(t.index0, t.start_line),
             SpanEnd(t.index0, t.start_line, t.line_count, Len(now)))

\* C8 as stated: read_lines returns start_line = s = min(start_line,
\* total_lines - 1), lines_read = e - s with e = min(s + line_count,
\* total_lines), and content equal to exactly the file bytes
\* [offsets[s], end_byte).
C8_RangeExact ==
    \A w \in active :
      Succeeded(w, "read_lines") =>
        LET t == th[w]
        IN /\ t.ret.start_line = ClampStart(t.index0, t.start_line)
           /\ t.ret.lines_read =
                ClampEnd(t.index0, t.start_line, t.line_count) - t.ret.start_line
           /\ t.ret.content = RangeBytes(w)

\* C8 amended: read_lines returns start_line = s, lines_read = e - s and the
\* lossy UTF-8 decoding of the file bytes [offsets[s], end_byte), which is
\* those bytes exactly when they are valid UTF-8.
C8_RangeLossy ==
    \A w \in active :
      Succeeded(w, "read_lines") =>
        LET t == th[w]
        IN /\ t.ret.start_line = ClampStart(t.index0, t.start_line)
           /\ t.ret.lines_read =
                ClampEnd(t.index0, t.start_line, t.line_count) - t.ret.start_line
           /\ t.ret.content = FromUtf8Lossy(RangeBytes(w))
           /\ t.ret.content = RangeBytes(w) <=> IsValidUtf8(RangeBytes(w))

\* A read of a later line whose bytes are not valid UTF-8 has returned.
C8_Witness ==
    \E w \in active :
      /\ Succeeded(w, "read_lines")
      /\ th[w].ret.start_line >= 1
      /\ th[w].ret.lines_read >= 1
      /\ ~IsValidUtf8(RangeBytes(w))
      /\ th[w].ret.content # RangeBytes(w)

\* The steps of read_lines and patch_file_lines that operate on the file.
FileOperations == {"stat", "open", "create", "copy_head", "write", "copy_tail",
                   "rename", "read", "reopen", "restat", "rescan", "stat_again"}

\* C10: the cache lock is never held while a file operation is performed: a
\* worker of read_lines or patch_file_lines that is about to stat, open,
\* seek, read, write or rename does not hold the lock.
C10_NoLockAcrossFileIO ==
    \A w \in active :
      th[w].op \in {"read_lines", "patch_file_lines"} /\ th[w].pc \in FileOperations =>
        lock # w

\* Worker w enters read_lines or patch_file_lines for a path that has no
\* cache entry.
CallsNotIndexed(w) ==
    /\ th[w].pc = "idle"
    /\ th'[w].op \in {"read_lines", "patch_file_lines"}
    /\ cache[th'[w].path] = NoIndex

\* No file, no directory entry and no cache entry changes in the step.
NothingChanges == dir' = dir /\ data' = data /\ cache' = cache

IndexScanning(w) ==
    \/ th[w].op = "index_file" /\ th[w].pc \in {"open", "stat", "scan", "insert"}
    \/ th[w].op = "patch_file_lines" /\ th[w].pc \in PatchAfterRename

\* C11: index_file and the re-index pass of patch_file_lines do not hold the
\* cache lock while they open, stat and scan the file: the lock is taken only
\* by the insert step, so a concurrent read_lines or patch_file_lines is
\* never kept waiting on the lock by a scan.
C11_ScanWithoutLock ==
    \A w \in active : IndexScanning(w) => lock # w

\* While one worker scans a file for index_file, the other has taken the
\* lock in read_lines.
C11_Witness ==
    \E w \in active, v \in active :
      /\ th[w].op = "index_file" /\ th[w].pc = "scan"
      /\ th[v].op = "read_lines" /\ lock = v

\* read_lines has returned the last line of a freshly indexed file.
LastLineRead(w) ==
    /\ Succeeded(w, "read_lines")
    /\ Fresh(w)
    /\ th[w].start_line = Len(th[w].index0) - 1
    /\ th[w].line_count >= 1

\* The bytes of the last line of the file worker w's call was issued on.
LastLineBytes(w) ==
    Slice(th[w].pre, th[w].index0[Len(th[w].index0)], Len(th[w].pre))

\* index_file of a zero-byte file reports total_lines = 1 and file_size = 0.
EmptyFileIndexed ==
    \A w \in active :
      Succeeded(w, "index_file") /\ Content(th[w].path) = <<>> =>
        /\ th[w].ret.total_lines = 1
        /\ th[w].ret.file_size = 0
        /\ cache[th[w].path] = <<0>>

\* C12 as stated: the final line counts as a line even when it is empty or
\* unterminated: a zero-byte file has total_lines = 1 and file_size = 0, and
\* reading the last line of an indexed file returns the bytes from its offset
\* to end of file with lines_read = 1.
C12_LastLineBytes ==
    /\ EmptyFileIndexed
    /\ \A w \in active :
         LastLineRead(w) =>
           /\ th[w].ret.lines_read = 1
           /\ th[w].ret.start_line = Len(th[w].index0) - 1
           /\ th[w].ret.content = LastLineBytes(w)

\* C12 amended: as stated, except that the content returned for the last
\* line is the lossy UTF-8 decoding of the bytes from its offset to end of
\* file, equal to those bytes exactly when they are valid UTF-8.
C12_LastLineText ==
    /\ EmptyFileIndexed
    /\ \A w \in active :
         LastLineRead(w) =>
           /\ th[w].ret.lines_read = 1
           /\ th[w].ret.start_line = Len(th[w].index0) - 1
           /\ th[w].ret.content = FromUtf8Lossy(LastLineBytes(w))
           /\ th[w].ret.content = LastLineBytes(w) <=> IsValidUtf8(LastLineBytes(w))

\* read_lines(path, 0, 1) has returned for an indexed zero-byte file.
C12_Witness ==
    \E w \in active :
      /\ LastLineRead(w)
      /\ th[w].pre = <<>>
      /\ th[w].start_line = 0 /\ th[w].line_count = 1
      /\ th[w].ret.lines_read = 1
      /\ th[w].ret.content = <<>>
      /\ th[w].ret.at = "read"

\* index_file has returned Ok: the entry of its path is the index of the
\* file, whatever entry the path had before, and the returned counts are
\* those of that index and that file.
IndexedNow(w) ==
    /\ cache[th[w].path] = IndexOf(Content(th[w].path))
    /\ th[w].ret.total_lines = Len(cache[th[w].path])
    /\ th[w].ret.file_size = Len(Content(th[w].path))

\* C13: index_file is idempotent and overwriting: a successful
\* index_file(path) replaces any prior cache entry for path, no step of the
\* call changes the entry of another path, and indexing again a file whose
\* entry was already its index leaves an identical entry with identical
\* total_lines and file_size.
C13_IndexOverwrites ==
    /\ [](\A w \in active :
            Succeeded(w, "index_file") =>
              /\ IndexedNow(w)
              /\ Fresh(w) => /\ cache[th[w].path] = th[w].index0
                             /\ th[w].ret.total_lines = Len(th[w].index0)
                             /\ th[w].ret.file_size = Len(th[w].pre))
    /\ [][\A w \in active :
            th[w].op = "index_file" =>
              \A q \in Paths \ {th[w].path} : cache'[q] = cache[q]]_vars

\* index_file has replaced an entry of its path that was no longer the
\* index of the file.
C13_Witness ==
    \E w \in active :
      /\ Succeeded(w, "index_file")
      /\ th[w].index0 # NoIndex
      /\ ~Fresh(w)
      /\ cache[th[w].path] # th[w].index0

\* Worker w has resolved the byte span of its call and not yet returned.
SpanResolved(w) ==
    \/ th[w].op = "read_lines" /\ th[w].pc \in {"open", "read"}
    \/ th[w].op = "patch_file_lines" /\ th[w].pc \in PatchBeforeRename \ {"stat"}

\* Workers r and p run read_lines and patch_file_lines with the same
\* arguments on the same file under the same cached index, and theirs are
\* the only two calls issued on the files.
SameRange(r, p) ==
    /\ th[r].op = "read_lines" /\ th[p].op = "patch_file_lines"
    /\ th[r].path = th[p].path
    /\ th[r].start_line = th[p].start_line
    /\ th[r].line_count = th[p].line_count
    /\ th[r].index0 = th[p].index0 /\ th[r].index0 # NoIndex
    /\ th[r].pre = th[p].pre
    /\ SpanResolved(p)
    /\ budget = MaxCalls - 2

\* C14: for every cached index and every (start_line, count), the byte span
\* [start_byte, end_byte) that patch_file_lines replaces is the byte span
\* that read_lines(path, start_line, count) reads: both clamp a start line
\* past the end to the last line, and for a count that resolves to no line
\* the reader reads nothing and the patcher replaces an empty span.
C14_PatchSpanIsReadSpan ==
    \A r \in active, p \in active :
      SameRange(r, p) =>
        /\ SpanResolved(r) =>
             /\ th[r].start_byte = th[p].start_byte
             /\ th[r].end_byte = th[p].end_byte
        /\ Succeeded(r, "read_lines") /\ th[r].ret.at = "lookup" =>
             th[p].start_byte = th[p].end_byte

\* A reader and a patcher have both resolved a range that starts past the
\* last line and runs to the end of the file.
C14_Witness ==
    \E r \in active, p \in active :
      /\ SameRange(r, p) /\ SpanResolved(r)
      /\ th[r].start_line >= Len(th[r].index0)
      /\ th[r].line_count > 0
      /\ th[p].start_byte < th[p].end_byte

\* The step in which worker w creates its temporary file: the only step
\* that gives the worker a destination handle.
CreatesTemp(w) == th[w].dest = 0 /\ th'[w].dest # 0

\* C15: the temporary file that patch_file_lines and safe_save_file create
\* is a path different from the target path, for every target path, and
\* creating it truncates neither the target nor any file that is indexed.
C15_TempNeverTruncates ==
    [][\A w \in active :
         CreatesTemp(w) =>
           /\ TempPath(th'[w].path) # th'[w].path
           /\ ContentIn(dir', data', th'[w].path) = Content(th'[w].path)
           /\ \A q \in Paths :
                cache[q] # NoIndex => ContentIn(dir', data', q) = Content(q)]_vars

\* The content patch_file_lines of worker w is to leave in its file.
Patched(w) ==
    LET t == th[w]
    IN Splice(t.pre, SpanStart(t.index0, t.start_line),
              SpanEnd(t.index0, t.start_line, t.line_count, Len(t.pre)),
              t.new_content)

\* C16: two patch_file_lines calls that run concurrently on two different
\* indexed paths do not interfere, for every pair of distinct paths: both
\* return Ok and each file ends with exactly its own patched content.
C16_ConcurrentPatches ==
    \A w \in active, v \in active :
      /\ Done(w, "patch_file_lines") /\ Fresh(w)
      /\ Done(v, "patch_file_lines") /\ Fresh(v)
      /\ th[w].path # th[v].path
      => /\ th[w].ret.status = "Ok"
         /\ Content(th[w].path) = Patched(w)

\* The text of lines [start_line, start_line + line_count) of a file under
\* an index.
RangeText(file, idx, start_line, line_count) ==
    FromUtf8Lossy(Slice(file, SpanStart(idx, start_line),
                        SpanEnd(idx, start_line, line_count, Len(file))))

\* read_lines of worker r has returned Ok, patch_file_lines of worker p is
\* on the same path, and they are the only two calls issued on the files.
RacingRead(r, p) ==
    /\ Succeeded(r, "read_lines")
    /\ th[p].op = "patch_file_lines"
    /\ th[p].path = th[r].path
    /\ budget = MaxCalls - 2

\* C17 as stated: a read_lines call that runs concurrently with a
\* patch_file_lines call on the same path returns the text of the requested
\* range in the pre-patch file or in the post-patch file, never bytes
\* resolved with one version's index against the other version's file.
C17_ReadSeesOneVersion ==
    \A r \in active, p \in active :
      RacingRead(r, p) =>
        LET t == th[r]
            post == Patched(p)
        IN t.ret.content \in
             {RangeText(th[p].pre, th[p].index0, t.start_line, t.line_count),
              RangeText(post, IndexOf(post), t.start_line, t.line_count)}

\* The results a read can return that resolved its span from index idx:
\* the text of that span in either version of the file, the end of a span
\* that runs to the last line being the size of either version.
SpanTexts(idx, start_line, line_count, files) ==
    {FromUtf8Lossy(Slice(f, SpanStart(idx, start_line),
                         SpanEnd(idx, start_line, line_count, Len(g)))) :
       <<f, g>> \in {fg \in files \X files :
                       /\ SpanStart(idx, start_line)
                            <= SpanEnd(idx, start_line, line_count, Len(fg[2]))
                       /\ SpanEnd(idx, start_line, line_count, Len(fg[2])) <= Len(fg[1])}}

\* C17 amended: a read_lines call that races a patch_file_lines call on the
\* same path resolves its byte span once, from the index it finds in the
\* cache, which is the pre-patch or the post-patch index, and returns the
\* text of that span in the file it then opens, which is the pre-patch or
\* the post-patch file.  A read that found the post-patch index returns the
\* post-patch text of the range; a read that found the pre-patch index may
\* return bytes of the post-patch file at the pre-patch offsets.
C17_ReadSeesOneIndex ==
    \A r \in active, p \in active :
      RacingRead(r, p) =>
        LET t == th[r]
            post == Patched(p)
        IN /\ t.index0 \in {th[p].index0, IndexOf(post)}
           /\ t.ret.content \in
                SpanTexts(t.index0, t.start_line, t.line_count, {th[p].pre, post})
           /\ t.index0 # th[p].index0 =>
                t.ret.content = RangeText(post, IndexOf(post), t.start_line, t.line_count)

\* A read that resolved its span from the pre-patch index has returned
\* bytes of the post-patch file that are the text of the range in neither
\* version.
C17_Witness ==
    \E r \in active, p \in active :
      /\ RacingRead(r, p)
      /\ th[r].index0 = th[p].index0
      /\ th[r].ret.at = "read"
      /\ Content(th[r].path) = Patched(p)
      /\ th[r].ret.content \notin
           {RangeText(th[p].pre, th[p].index0, th[r].start_line, th[r].line_count),
            RangeText(Patched(p), IndexOf(Patched(p)), th[r].start_line, th[r].line_count)}

\* Worker w has just resolved the byte span of its call from the cached
\* index and the file is still to be opened or read.
SpanJustResolved(w) ==
    \/ th[w].op = "read_lines" /\ th[w].pc \in {"open", "read"}
    \/ th[w].op = "patch_file_lines" /\ th[w].pc = "open"

\* C18: in every state reached through index_file, read_lines and
\* patch_file_lines calls issued one at a time on files that nothing else
\* modifies, the byte span resolved from the cached index satisfies
\* start_byte <= end_byte <= current file size: the subtraction
\* end_byte - start_byte in read_lines never underflows and the exact-length
\* read never runs past end of file.
C18_SpanWithinFile ==
    \A w \in active :
      /\ Done(w, "read_lines") => th[w].ret.status # "Panic"
      /\ SpanJustResolved(w) /\ dir[th[w].path] # 0 =>
           /\ th[w].start_byte <= th[w].end_byte
           /\ th[w].end_byte <= Len(Content(th[w].path))

\* C19: safe_save_file and write_file_content replace the file's content
\* through the temporary file and the rename and never read or write the
\* Index Cache: no step of the call changes the cache, the entry of the
\* saved path is the same after the call as before it, and after the save
\* of an indexed path the cache still holds the index of the pre-save
\* content.
C19_SaveLeavesCache ==
    /\ [](\A w \in active :
            /\ Done(w, "safe_save_file") => cache[th[w].path] = th[w].index0
            /\ Succeeded(w, "safe_save_file") =>
                 /\ Content(th[w].path) = th[w].new_content
                 /\ Fresh(w) => cache[th[w].path] = IndexOf(th[w].pre))
    /\ [][(\E w \in active : th'[w].op = "safe_save_file") => cache' = cache]_vars

\* A save has replaced an indexed file by content with another index.
C19_Witness ==
    \E w \in active :
      /\ Succeeded(w, "safe_save_file")
      /\ Fresh(w)
      /\ Content(th[w].path) # th[w].pre
      /\ cache[th[w].path] # IndexOf(Content(th[w].path))

\* The elements of a sequence.
Range(seq) == {seq[k] : k \in 1..Len(seq)}

\* Worker w returns from write_terminal or resize_terminal in this step.
TermCalls(w) ==
    /\ tt[w].pc = "idle"
    /\ tt'[w].op \in {"write_terminal", "resize_terminal"}

\* C20: terminal ids bind to exactly one session: every successful
\* spawn_terminal, concurrent ones included, returns an id different from
\* every id returned before, so the id of a killed session is never used
\* again; write_terminal and resize_terminal on an id that was never spawned
\* or has been killed return the not-found error; kill_terminal returns Ok
\* whether or not the id exists.
C20_TerminalIds ==
    /\ [](/\ \A i \in 1..Len(returned), j \in 1..Len(returned) :
               i # j => returned[i] # returned[j]
          /\ killed \subseteq Range(returned)
          /\ killed \cap DOMAIN sessions = {}
          /\ \A w \in active :
               tt[w].pc = "done" /\ tt[w].op = "kill_terminal" =>
                 tt[w].ret.status = "Ok")
    /\ [][\A w \in active :
            TermCalls(w) /\ (tt'[w].id \notin Range(returned) \/ tt'[w].id \in killed) =>
              tt'[w].ret.status = "NotFound"]_vars

\* Two spawns have returned, one of the two sessions has been killed, and a
\* write to the killed id has returned the not-found error.
C20_Witness ==
    \E w \in active :
      /\ Len(returned) = 2
      /\ tt[w].pc = "done" /\ tt[w].op = "write_terminal"
      /\ tt[w].id \in killed
      /\ tt[w].ret.status = "NotFound"

=============================================================================
